---- MODULE Spec2Model ----
(***************************************************************************)
(* A model of fabfile.py: the Fabric tasks stop, update, build, start and   *)
(* deploy, which drive two services (collector, webserverd) on one remote   *)
(* host.  A run is one `fab <task>` process.  The remote host is modelled   *)
(* by its process table and by the binaries present on its filesystem.      *)
(* Paths are sequences of path segments: "/a/b" is <<"a", "b">>, and        *)
(* '%s/collector' % p is p \o <<"collector">>.                              *)
(***************************************************************************)
EXTENDS Integers, Sequences, FiniteSets, TLC

VARIABLES
    env,      \* fabric.api.env as set by the module body: user and the three paths
    task,     \* task[r]: the task run r was invoked with ("none": not invoked)
    stack,    \* stack[r]: the call stack of run r, frames [fn, pc], innermost last
    cwd,      \* cwd[r]: env.cwd, the remote directory scope in effect in run r
    saved,    \* saved[r]: the values of env.cwd the open `with cd` blocks restore
    status,   \* status[r]: "idle" | "running" | "done" | "aborted"
    log,      \* the remote commands issued so far, in order of issue
    procs,    \* procs[s]: how many processes named s run on the remote host
    bins      \* the executables present on the remote host, by path

vars == <<env, task, stack, cwd, saved, status, log, procs, bins>>

Services == {"collector", "webserverd"}
Runs == {1, 2}
Tasks == {"stop", "update", "build", "start", "deploy"}

\* How many instances of one service the host may run before the first command.
MaxRunning == 2

\* env.cwd when no `with cd` block is open (Fabric's default, the empty string).
NoCwd == <<>>

----------------------------------------------------------------------------
(* Configuration: the module body of the fabfile.                          *)

DefaultUser == "ubuntu"
DefaultRoot == <<"home", "ubuntu", ".go", "src", "github.com", "timeredbull", "tsuru">>

\* The other configurations the derived paths are checked for.
Users == {DefaultUser, "deploy"}
Roots == {DefaultRoot, <<"srv", "tsuru">>}

Env_flat(user, root) ==
    [user |-> user,
     tsuru_path |-> root,
     collector_path |-> root \o <<"collector">>,
     webserverd_path |-> root \o <<"webserverd">>]

\* env.user, env.tsuru_path, and the two paths derived from it with
\* '%s/collector' and '%s/api/webserverd'.
Env(user, root) ==
    [user |-> user,
     tsuru_path |-> root,
     collector_path |-> root \o <<"collector">>,
     webserverd_path |-> root \o <<"api", "webserverd">>]

warn_only_set == TRUE

\* The fabfile leaves env.warn_only at Fabric's default: a command that exits
\* non-zero aborts the fab process.
warn_only == FALSE

run_async == FALSE

\* run() is a synchronous call: the statement after it executes only once the
\* remote command has returned.
run_blocks == TRUE

----------------------------------------------------------------------------
(* Remote commands, as the shell on the host reads them.                   *)

Tty == "tty"
DevNull == "/dev/null"

Cmd(prog, flag, arg, src, io, bg) ==
    [prog |-> prog, flag |-> flag, arg |-> arg, src |-> src,
     stdin |-> io, stdout |-> io, stderr |-> io, bg |-> bg]

NoCmd == Cmd("", "", <<>>, <<>>, Tty, FALSE)

\* 'killall -9 <name>'
Killall(name) == Cmd("killall", "-9", <<name>>, <<>>, Tty, FALSE)

\* 'go get -u <pkg>'
GoGet(pkg) == Cmd("go get", "-u", pkg, <<>>, Tty, FALSE)

\* 'go build -o <out> main.go'
GoBuild(out) == Cmd("go build", "-o", <<out>>, <<"main.go">>, Tty, FALSE)

\* 'nohup <path> >& /dev/null < /dev/null &'
Nohup(path) == Cmd("nohup", "", path, <<>>, DevNull, TRUE)

----------------------------------------------------------------------------
(* Statements of the task bodies.                                          *)

Run(c, pty) == [op |-> "run", cmd |-> c, pty |-> pty, path |-> <<>>, fn |-> ""]
CdEnter(p) == [op |-> "cd", cmd |-> NoCmd, pty |-> TRUE, path |-> p, fn |-> ""]
CdExit == [op |-> "uncd", cmd |-> NoCmd, pty |-> TRUE, path |-> <<>>, fn |-> ""]
Call(f) == [op |-> "call", cmd |-> NoCmd, pty |-> TRUE, path |-> <<>>, fn |-> f]

stop_webserverd_only(e) ==
    << Run(Killall("webserverd"), TRUE) >>

stop(e) ==
    << Run(Killall("webserverd"), TRUE),
       Run(Killall("collector"), TRUE) >>

update(e) ==
    << Run(GoGet(<<"github.com", "timeredbull", "tsuru", "collector">>), TRUE),
       Run(GoGet(<<"github.com", "timeredbull", "tsuru", "api", "webserverd">>), TRUE) >>

build_one_scope(e) ==
    << CdEnter(e.collector_path),
       Run(GoBuild("collector"), TRUE),
       Run(GoBuild("webserverd"), TRUE),
       CdExit >>

build(e) ==
    << CdEnter(e.collector_path),
       Run(GoBuild("collector"), TRUE),
       CdExit,
       CdEnter(e.webserverd_path),
       Run(GoBuild("webserverd"), TRUE),
       CdExit >>

start_from_root(e) ==
    << Run(Nohup(e.tsuru_path \o <<"collector">>), FALSE),
       Run(Nohup(e.tsuru_path \o <<"webserverd">>), FALSE) >>

start(e) ==
    << Run(Nohup(e.collector_path \o <<"collector">>), FALSE),
       Run(Nohup(e.webserverd_path \o <<"webserverd">>), FALSE) >>

deploy_build_first(e) ==
    << Call("stop"), Call("build"), Call("update"), Call("start") >>

deploy_no_update(e) ==
    << Call("stop"), Call("build"), Call("start") >>

deploy(e) ==
    << Call("stop"), Call("update"), Call("build"), Call("start") >>

Body(fn, e) ==
    CASE fn = "stop" -> stop(e)
      [] fn = "update" -> update(e)
      [] fn = "build" -> build(e)
      [] fn = "start" -> start(e)
      [] fn = "deploy" -> deploy(e)

----------------------------------------------------------------------------
(* The remote host: what each command does there and the status it exits   *)
(* with.                                                                   *)

KillallExitLenient(n) == 0

\* killall exits 0 when it signalled at least one process of that name, and
\* non-zero ("no process found") otherwise.
KillallExit(n) == IF n > 0 THEN 0 ELSE 1

\* go get and go build need the network, the toolchain and sources that
\* compile: either may succeed or fail.
GoExits == {0, 1}

\* The outcomes of command c issued in directory d: the exit status and the
\* host's process table and binaries afterwards.
Exec(c, d) ==
    CASE c.prog = "killall" ->
           {[exit |-> KillallExit(procs[c.arg[1]]),
             procs |-> [procs EXCEPT ![c.arg[1]] = 0],
             bins |-> bins]}
      [] c.prog = "go get" ->
           {[exit |-> x, procs |-> procs, bins |-> bins] : x \in GoExits}
      [] c.prog = "go build" ->
           {[exit |-> x, procs |-> procs,
             bins |-> IF x = 0 THEN bins \cup {d \o c.arg} ELSE bins] : x \in GoExits}
      [] c.prog = "nohup" ->
           \* the shell backgrounds the job and exits 0 whether or not the
           \* executable exists; a process appears only when it does
           {[exit |-> 0,
             procs |-> IF c.arg \in bins
                       THEN [procs EXCEPT ![c.arg[Len(c.arg)]] = @ + 1]
                       ELSE procs,
             bins |-> bins]}

----------------------------------------------------------------------------
(* The interpreter of one run.                                             *)

Top(r) == stack[r][Len(stack[r])]
AtStmt(r) ==
    /\ status[r] = "running"
    /\ stack[r] # <<>>
    /\ Top(r).pc <= Len(Body(Top(r).fn, env))
Stmt(r) == Body(Top(r).fn, env)[Top(r).pc]
Advance(s) == [s EXCEPT ![Len(s)].pc = @ + 1]

\* The commands of run r that have been issued and have not returned.
Outstanding(r) == {i \in DOMAIN log : log[i].run = r /\ ~log[i].done}

\* How many commands the host has executed. A log entry records as `at` its
\* place in the order of execution, which for two runs need not be the order
\* of issue.
Executed == Cardinality({i \in DOMAIN log : log[i].done})

\* A task calls another task: deploy's four calls.
call(r) ==
    /\ AtStmt(r)
    /\ Stmt(r).op = "call"
    /\ stack' = [stack EXCEPT ![r] = Append(@, [fn |-> Stmt(r).fn, pc |-> 1])]
    /\ UNCHANGED <<env, task, cwd, saved, status, log, procs, bins>>

\* A task body ends: back to the caller, or the run is over.
ret(r) ==
    /\ status[r] = "running"
    /\ stack[r] # <<>>
    /\ Top(r).pc > Len(Body(Top(r).fn, env))
    /\ Outstanding(r) = {} \/ ~run_blocks
    /\ LET rest == SubSeq(stack[r], 1, Len(stack[r]) - 1) IN
          IF rest = <<>>
          THEN /\ stack' = [stack EXCEPT ![r] = <<>>]
               /\ status' = [status EXCEPT ![r] = "done"]
          ELSE /\ stack' = [stack EXCEPT ![r] = Advance(rest)]
               /\ UNCHANGED status
    /\ UNCHANGED <<env, task, cwd, saved, log, procs, bins>>

\* `with cd(path):` opens: env.cwd becomes path (an absolute path replaces the
\* scope in effect) and the old value is kept for the block's exit.
cd_enter(r) ==
    /\ AtStmt(r)
    /\ Stmt(r).op = "cd"
    /\ saved' = [saved EXCEPT ![r] = Append(@, cwd[r])]
    /\ cwd' = [cwd EXCEPT ![r] = Stmt(r).path]
    /\ stack' = [stack EXCEPT ![r] = Advance(@)]
    /\ UNCHANGED <<env, task, status, log, procs, bins>>

\* The `with cd` block closes: env.cwd is restored.
cd_exit(r) ==
    /\ AtStmt(r)
    /\ Stmt(r).op = "uncd"
    /\ saved[r] # <<>>
    /\ cwd' = [cwd EXCEPT ![r] = saved[r][Len(saved[r])]]
    /\ saved' = [saved EXCEPT ![r] = SubSeq(@, 1, Len(@) - 1)]
    /\ stack' = [stack EXCEPT ![r] = Advance(@)]
    /\ UNCHANGED <<env, task, status, log, procs, bins>>

\* run(command, pty): the command goes to the host, in the scope env.cwd.
run_send(r) ==
    /\ AtStmt(r)
    /\ Stmt(r).op = "run"
    /\ run_blocks => Outstanding(r) = {}
    /\ log' = Append(log, [run |-> r, cmd |-> Stmt(r).cmd, cwd |-> cwd[r],
                           pty |-> Stmt(r).pty, done |-> FALSE, exit |-> 0,
                           at |-> 0])
    /\ stack' = [stack EXCEPT ![r] = IF run_blocks THEN @ ELSE Advance(@)]
    /\ UNCHANGED <<env, task, cwd, saved, status, procs, bins>>

\* The host executes the command and run() returns its exit status: zero and
\* the task goes on; non-zero and Fabric aborts the process (every open
\* `with cd` block restoring env.cwd on the way out), unless warn_only.
run_return(r) ==
    \E i \in Outstanding(r) :
      \E o \in Exec(log[i].cmd, log[i].cwd) :
        /\ log' = [log EXCEPT ![i].done = TRUE, ![i].exit = o.exit,
                               ![i].at = Executed + 1]
        /\ procs' = o.procs
        /\ bins' = o.bins
        /\ IF status[r] # "running"
           THEN UNCHANGED <<stack, status, cwd, saved>>
           ELSE IF o.exit = 0 \/ warn_only
           THEN /\ stack' = [stack EXCEPT ![r] = IF run_blocks THEN Advance(@) ELSE @]
                /\ UNCHANGED <<status, cwd, saved>>
           ELSE /\ stack' = [stack EXCEPT ![r] = <<>>]
                /\ status' = [status EXCEPT ![r] = "aborted"]
                /\ cwd' = [cwd EXCEPT ![r] = IF saved[r] = <<>> THEN @ ELSE saved[r][1]]
                /\ saved' = [saved EXCEPT ![r] = <<>>]
        /\ UNCHANGED <<env, task>>

Next ==
    \E r \in Runs :
        \/ call(r)
        \/ ret(r)
        \/ cd_enter(r)
        \/ cd_exit(r)
        \/ run_send(r)
        \/ run_return(r)

----------------------------------------------------------------------------
(* Initial states.                                                         *)

\* The paths at which build leaves its two executables.
BinPaths(e) == {e.collector_path \o <<"collector">>, e.webserverd_path \o <<"webserverd">>}

InitRun(e, t) ==
    /\ env = e
    /\ task = t
    /\ stack = [r \in Runs |-> IF t[r] = "none" THEN <<>> ELSE <<[fn |-> t[r], pc |-> 1]>>]
    /\ status = [r \in Runs |-> IF t[r] = "none" THEN "idle" ELSE "running"]
    /\ cwd = [r \in Runs |-> NoCwd]
    /\ saved = [r \in Runs |-> <<>>]
    /\ log = <<>>

\* One `fab <task>` against a host in any condition.
Init ==
    /\ \E t \in Tasks : InitRun(Env(DefaultUser, DefaultRoot), [r \in Runs |-> IF r = 1 THEN t ELSE "none"])
    /\ procs \in [Services -> 0..MaxRunning]
    /\ bins \in SUBSET BinPaths(env)

Spec == Init /\ [][Next]_vars

\* The same, for each configured user and root path.
InitConfig ==
    /\ \E u \in Users, p \in Roots, t \in Tasks :
          InitRun(Env(u, p), [r \in Runs |-> IF r = 1 THEN t ELSE "none"])
    /\ procs \in [Services -> 0..MaxRunning]
    /\ bins \in SUBSET BinPaths(env)

SpecConfig == InitConfig /\ [][Next]_vars

\* Two `fab deploy` processes against one host where both services run.
InitConcurrent ==
    /\ InitRun(Env(DefaultUser, DefaultRoot), [r \in Runs |-> "deploy"])
    /\ procs \in [Services -> 1..MaxRunning]
    /\ bins \in SUBSET BinPaths(env)

SpecConcurrent == InitConcurrent /\ [][Next]_vars

----------------------------------------------------------------------------
(* What the commands of one run look like in the log.                      *)

RunLog(r) == SelectSeq(log, LAMBDA e : e.run = r)
Ended(r) == status[r] \in {"done", "aborted"}
Succeeded(e) == e.done /\ e.exit = 0
Failed(e) == e.done /\ e.exit # 0
IsKill(e, s) == e.cmd.prog = "killall" /\ e.cmd.arg = <<s>>
IsLaunch(e, s) == e.cmd.prog = "nohup" /\ e.cmd.arg[Len(e.cmd.arg)] = s

\* The phase of deploy a command belongs to: stop 1, update 2, build 3, start 4.
PhaseOf(e) ==
    CASE e.cmd.prog = "killall" -> 1
      [] e.cmd.prog = "go get" -> 2
      [] e.cmd.prog = "go build" -> 3
      [] e.cmd.prog = "nohup" -> 4

PhaseRan(r, k) == \E i \in DOMAIN RunLog(r) : PhaseOf(RunLog(r)[i]) = k
PhaseOk(r, k) ==
    LET L == RunLog(r) IN
    /\ Cardinality({i \in DOMAIN L : PhaseOf(L[i]) = k}) = 2
    /\ \A i \in DOMAIN L : PhaseOf(L[i]) = k => Succeeded(L[i])
Progs(r) == [i \in DOMAIN RunLog(r) |-> RunLog(r)[i].cmd.prog]

----------------------------------------------------------------------------
\* C1: a deploy run never issues a command of a later phase before both
\* commands of every earlier phase have been issued and have succeeded, never
\* issues more than eight commands, and, once it has ended with every command
\* successful, has issued exactly eight: two terminates, two fetch-installs,
\* two compiles, two launches, in that order.
C1_DeployOrder ==
    \A r \in Runs : task[r] = "deploy" =>
        LET L == RunLog(r) IN
        /\ Len(L) <= 8
        /\ \A i, j \in DOMAIN L : i < j => PhaseOf(L[i]) <= PhaseOf(L[j])
        /\ \A j \in DOMAIN L : \A k \in 1..(PhaseOf(L[j]) - 1) :
              Cardinality({i \in 1..(j - 1) : PhaseOf(L[i]) = k /\ Succeeded(L[i])}) = 2
        /\ (status[r] = "done" /\ \A i \in DOMAIN L : Succeeded(L[i])) =>
              Progs(r) = <<"killall", "killall", "go get", "go get",
                           "go build", "go build", "nohup", "nohup">>

C1_Witness ==
    \E r \in Runs :
        /\ task[r] = "deploy"
        /\ status[r] = "done"
        /\ Len(RunLog(r)) = 8
        /\ \A i \in DOMAIN RunLog(r) : Succeeded(RunLog(r)[i])

\* C2: once a command of a run has returned a non-zero exit status, the run
\* is aborted and that command is the last one the run ever issued.
C2_FailureAborts ==
    \A i \in DOMAIN log : Failed(log[i]) =>
        /\ status[log[i].run] = "aborted"
        /\ stack[log[i].run] = <<>>
        /\ \A j \in DOMAIN log : j > i => log[j].run # log[i].run

\* A deploy whose second terminate failed: nothing of update, build or start.
C2_Witness ==
    \E r \in Runs :
        /\ task[r] = "deploy"
        /\ status[r] = "aborted"
        /\ Len(RunLog(r)) = 2
        /\ Succeeded(RunLog(r)[1])
        /\ Failed(RunLog(r)[2])
        /\ IsKill(RunLog(r)[2], "collector")

\* C3 as stated: whatever fails, a deploy run that has ended has run all four
\* of its steps.
C3_NextStepStillRuns ==
    \A r \in Runs : (task[r] = "deploy" /\ Ended(r)) =>
        \A k \in 1..4 : PhaseRan(r, k)

\* C3, amended: deploy calls its four steps in sequence with no error handling
\* of its own. A step runs only when both commands of the step before it
\* succeeded, it does run when they did, and a run in which a command failed
\* ends aborted, without the steps after the failure.
C3_StepsUntilFailure ==
    \A r \in Runs : task[r] = "deploy" =>
        /\ \A k \in 1..3 : PhaseRan(r, k + 1) => PhaseOk(r, k)
        /\ Ended(r) => PhaseRan(r, 1)
        /\ \A k \in 1..3 : (Ended(r) /\ PhaseOk(r, k)) => PhaseRan(r, k + 1)
        /\ (\E i \in DOMAIN RunLog(r) : Failed(RunLog(r)[i])) <=> status[r] = "aborted"

\* A deploy stopped by a failing fetch-install: stop ran, build and start did not.
C3_Witness ==
    \E r \in Runs :
        /\ task[r] = "deploy"
        /\ status[r] = "aborted"
        /\ PhaseOk(r, 1)
        /\ PhaseRan(r, 2)
        /\ ~PhaseRan(r, 3)
        /\ ~PhaseRan(r, 4)

\* C4 as stated: stop is never an error. A stop or deploy run that has ended
\* has issued both terminate commands, and a deploy run has gone on to update.
C4_StopIsNoop ==
    \A r \in Runs : (task[r] \in {"stop", "deploy"} /\ Ended(r)) =>
        /\ \A s \in Services : \E i \in DOMAIN RunLog(r) : IsKill(RunLog(r)[i], s)
        /\ \A i \in DOMAIN RunLog(r) : PhaseOf(RunLog(r)[i]) = 1 => Succeeded(RunLog(r)[i])
        /\ task[r] = "deploy" => PhaseRan(r, 2)

\* C5: every command is issued in the directory scope the code gives it: the
\* collector path for the compile that outputs collector, the webserverd path
\* for the compile that outputs webserverd, no scope for any other command;
\* and a run that is over has left no scope open.
ScopeOf(c) ==
    IF c.prog = "go build" /\ c.arg = <<"collector">> THEN env.collector_path
    ELSE IF c.prog = "go build" /\ c.arg = <<"webserverd">> THEN env.webserverd_path
    ELSE NoCwd

C5_Scopes ==
    /\ \A i \in DOMAIN log : log[i].cwd = ScopeOf(log[i].cmd)
    /\ \A r \in Runs : Ended(r) => (cwd[r] = NoCwd /\ saved[r] = <<>>)

\* Both compiles done in their scopes, and a launch issued after them in none.
C5_Witness ==
    \E i, j, k \in DOMAIN log :
        /\ i < j /\ j < k
        /\ log[i].cmd.prog = "go build" /\ log[i].cwd = env.collector_path
        /\ log[j].cmd.prog = "go build" /\ log[j].cwd = env.webserverd_path
        /\ log[k].cmd.prog = "nohup" /\ log[k].cwd = NoCwd

\* C6: every launch command is detached (no pty, backgrounded, input, output
\* and error from and to the null device) and names one of the two executables
\* by the path collector path/collector or webserverd path/webserverd; a start
\* run that is over has issued exactly those two launches and nothing else;
\* and in a deploy run each launch names a path at which a compile of the same
\* run, in its scope, wrote its output.
IsDetached(e) ==
    /\ ~e.pty
    /\ e.cmd.bg
    /\ e.cmd.stdin = DevNull
    /\ e.cmd.stdout = DevNull
    /\ e.cmd.stderr = DevNull

C6_Start ==
    /\ \A i \in DOMAIN log : log[i].cmd.prog = "nohup" =>
          /\ IsDetached(log[i])
          /\ log[i].cmd.arg \in {env.collector_path \o <<"collector">>,
                                 env.webserverd_path \o <<"webserverd">>}
    /\ \A r \in Runs : LET L == RunLog(r) IN
          /\ task[r] = "start" => (Len(L) <= 2 /\ \A i \in DOMAIN L : L[i].cmd.prog = "nohup")
          /\ (task[r] = "start" /\ Ended(r)) =>
                /\ Len(L) = 2
                /\ L[1].cmd.arg = env.collector_path \o <<"collector">>
                /\ L[2].cmd.arg = env.webserverd_path \o <<"webserverd">>
          /\ task[r] = "deploy" =>
                \A i \in DOMAIN L : L[i].cmd.prog = "nohup" =>
                    /\ L[i].cmd.arg \in bins
                    /\ \E j \in 1..(i - 1) :
                          /\ L[j].cmd.prog = "go build"
                          /\ L[j].cwd \o L[j].cmd.arg = L[i].cmd.arg

\* start on its own, over, with both services launched from existing binaries.
C6_Witness ==
    \E r \in Runs :
        /\ task[r] = "start"
        /\ status[r] = "done"
        /\ Len(RunLog(r)) = 2
        /\ \A i \in DOMAIN RunLog(r) : RunLog(r)[i].cmd.arg \in bins
        /\ \A s \in Services : procs[s] >= 1

\* C7: a stop run issues only 'killall -9' commands and at most two; once it
\* is done these are two, one naming webserverd and one naming collector. An
\* update run issues only 'go get -u' commands and at most two; once it is
\* done these are two, one naming each service's module path.
C7_StopUpdate ==
    \A r \in Runs : LET L == RunLog(r) IN
        /\ task[r] = "stop" =>
              /\ Len(L) <= 2
              /\ \A i \in DOMAIN L : L[i].cmd.prog = "killall" /\ L[i].cmd.flag = "-9"
              /\ status[r] = "done" =>
                    /\ Len(L) = 2
                    /\ {L[i].cmd.arg : i \in DOMAIN L} = {<<"webserverd">>, <<"collector">>}
        /\ task[r] = "update" =>
              /\ Len(L) <= 2
              /\ \A i \in DOMAIN L : L[i].cmd.prog = "go get" /\ L[i].cmd.flag = "-u"
              /\ status[r] = "done" =>
                    /\ Len(L) = 2
                    /\ {L[i].cmd.arg : i \in DOMAIN L} =
                          {<<"github.com", "timeredbull", "tsuru", "collector">>,
                           <<"github.com", "timeredbull", "tsuru", "api", "webserverd">>}

C7_Witness ==
    \E r \in Runs :
        /\ task[r] = "stop"
        /\ status[r] = "done"
        /\ Len(RunLog(r)) = 2
        /\ \A s \in Services : procs[s] = 0

\* C8: in every state the collector path is the root path followed by
\* collector and the webserverd path the root path followed by api/webserverd,
\* and no step of any task changes the user, the root path or a derived path.
C8_Config ==
    /\ [](/\ env.collector_path = env.tsuru_path \o <<"collector">>
          /\ env.webserverd_path = env.tsuru_path \o <<"api", "webserverd">>
          /\ env.user \in Users
          /\ env.tsuru_path \in Roots)
    /\ [][env' = env]_vars

\* A whole deploy has run under a configuration other than the default one.
C8_Witness ==
    \E r \in Runs :
        /\ task[r] = "deploy"
        /\ status[r] = "done"
        /\ env.user # DefaultUser
        /\ env.tsuru_path # DefaultRoot
        /\ Len(RunLog(r)) = 8

\* C9: a run has at most one command outstanding, and an outstanding command
\* is the last one the run has issued: nothing is issued before it returns.
C9_OneAtATime ==
    \A r \in Runs :
        /\ Cardinality(Outstanding(r)) <= 1
        /\ \A i \in Outstanding(r) : \A j \in DOMAIN log : j > i => log[j].run # r

\* The collector's launch has returned with the collector running, and the
\* launch of webserverd is outstanding.
C9_Witness ==
    \E i, j \in DOMAIN log :
        /\ i < j
        /\ log[i].run = log[j].run
        /\ IsLaunch(log[i], "collector") /\ Succeeded(log[i])
        /\ procs["collector"] >= 1
        /\ IsLaunch(log[j], "webserverd") /\ ~log[j].done

\* C10: two deploy runs against one host are not coordinated by the
\* orchestrator; all that keeps them apart is the exit status of killall. Two
\* runs are never both between their successful terminate of a service and
\* their launch of it. After both have ended a service may be left without
\* an instance: whenever a service does not have exactly one, it has none,
\* and the last command the host executed on it was a successful terminate by
\* a run that ended aborted. (Each remote command takes effect on the host in
\* one step.)
BothEnded == \A r \in Runs : Ended(r)
ActsOn(e, s) == Succeeded(e) /\ (IsKill(e, s) \/ IsLaunch(e, s))
Redeploying(r, s) ==
    /\ status[r] = "running"
    /\ \E j \in DOMAIN log : log[j].run = r /\ IsKill(log[j], s) /\ Succeeded(log[j])
    /\ ~\E k \in DOMAIN log : log[k].run = r /\ IsLaunch(log[k], s) /\ log[k].done

====
